---- MODULE Spec2Model ----
(***************************************************************************)
(* A model of the faunadb-rust client (src/src/client.rs) and of the       *)
(* create-index builders (src/src/query/write/create_index.rs).            *)
(*                                                                         *)
(* Text is modelled as sequences of bytes (a Rust String is its UTF-8      *)
(* bytes).  JSON values are modelled as TLA+ values: an object is a        *)
(* function from key strings to values, an array is a sequence.            *)
(* Option<T> is modelled as a sequence: None is <<>>, Some(x) is <<x>>.    *)
(*                                                                         *)
(* Four specifications share the variables:                                *)
(*   SpecBuild   Client::builder, the builder setters, ClientBuilder::build *)
(*   Spec        Client::query / Client::request on a built client         *)
(*   SpecTerm    Term and IndexValue constructors and reverse              *)
(*   SpecParams  IndexParams::new and the IndexParams setters              *)
(***************************************************************************)
EXTENDS Integers, Sequences, FiniteSets, TLC

VARIABLES
    \* ---- ClientBuilder / Client (client.rs 28-90) ----
    builder,      \* Option<ClientBuilder>: <<>> or <<[uri, secret, timeout]>>
    buildLog,     \* the fallible/encoding steps build() performed, in order
    buildResult,  \* [tag |-> "None" | "Ok" | "Err", client |-> Option<Client>]
    \* ---- one query in flight (client.rs 93-177) ----
    client,       \* the Client the queries run on
    calls,        \* number of Client::query calls made
    sent,         \* the requests handed to transport.request, in order
    inner,        \* state of the transport operation of the current query
    status,       \* status of the response head (0 before it arrives)
    remaining,    \* body bytes the transport has not delivered yet
    buf,          \* body bytes received so far (concat2's accumulator)
    timer,        \* state of the Timeout's delay
    result,       \* what the future returned by query resolved to
    decodeCalls,  \* times the success decode closure ran for this query
    parseCalls,   \* times the FaunaErrors parser ran for this query
    inTime,       \* the body was complete while the timer was still running
    lateTimer,    \* the timer elapsed while the pipeline was not ready
    \* ---- create_index builders ----
    term,         \* Option<Term>
    ivalue,       \* Option<IndexValue>
    reversed,     \* reverse() was called on ivalue since it was constructed
    params,       \* Option<IndexParams>
    given,        \* the arguments of IndexParams::new
    called,       \* setters called on params so far
    lastArg       \* setter name -> Option<argument of its most recent call>

vars == <<builder, buildLog, buildResult, client, calls, sent, inner, status,
          remaining, buf, timer, result, decodeCalls, parseCalls, inTime,
          lateTimer, term, ivalue, reversed, params, given, called, lastArg>>

buildVars  == <<builder, buildLog, buildResult>>
queryVars  == <<client, calls, sent, inner, status, remaining, buf, timer,
                result, decodeCalls, parseCalls, inTime, lateTimer>>
termVars   == <<term, ivalue, reversed>>
paramsVars == <<params, given, called, lastArg>>

(***************************************************************************)
(* Bounds                                                                  *)
(***************************************************************************)
MaxQueries == 2     \* query calls explored
ChunkSize == 16     \* bytes the transport delivers per body chunk
MaxUriLen == 2      \* length of the uri strings tried
MaxSecretLen == 2   \* length of the secrets tried
MaxPath == 2        \* length of a field path

(***************************************************************************)
(* Sequence helpers                                                        *)
(***************************************************************************)
Min(a, b) == IF a <= b THEN a ELSE b

Take(s, n) == SubSeq(s, 1, Min(n, Len(s)))

Drop(s, n) == SubSeq(s, Min(n, Len(s)) + 1, Len(s))

StartsWith(s, p) == Len(s) >= Len(p) /\ SubSeq(s, 1, Len(p)) = p

SeqsUpTo(S, n) == UNION {[1..k -> S] : k \in 0..n}

\* index of the first occurrence of byte b in s, 0 when absent
RECURSIVE IndexOf(_, _, _)
IndexOf(s, b, i) ==
    IF i > Len(s) THEN 0
    ELSE IF s[i] = b THEN i
    ELSE IndexOf(s, b, i + 1)

(***************************************************************************)
(* String::from_utf8 (client.rs 128): the bytes are kept as they are when  *)
(* they are well-formed UTF-8, and the conversion fails otherwise.         *)
(***************************************************************************)
IsCont(b) == b >= 128 /\ b <= 191

RECURSIVE Utf8Valid(_)
Utf8Valid(bs) ==
    IF bs = <<>> THEN TRUE
    ELSE LET b == bs[1] n == Len(bs) IN
         IF b <= 127 THEN Utf8Valid(Drop(bs, 1))
         ELSE IF b >= 194 /\ b <= 223
              THEN n >= 2 /\ IsCont(bs[2]) /\ Utf8Valid(Drop(bs, 2))
         ELSE IF b >= 224 /\ b <= 239
              THEN /\ n >= 3
                   /\ IsCont(bs[2]) /\ IsCont(bs[3])
                   /\ (b = 224 => bs[2] >= 160)
                   /\ (b = 237 => bs[2] <= 159)
                   /\ Utf8Valid(Drop(bs, 3))
         ELSE IF b >= 240 /\ b <= 244
              THEN /\ n >= 4
                   /\ IsCont(bs[2]) /\ IsCont(bs[3]) /\ IsCont(bs[4])
                   /\ (b = 240 => bs[2] >= 144)
                   /\ (b = 244 => bs[2] <= 143)
                   /\ Utf8Valid(Drop(bs, 4))
         ELSE FALSE

from_utf8(bs) == IF Utf8Valid(bs) THEN <<bs>> ELSE <<>>

(***************************************************************************)
(* serde_json::from_str::<FaunaErrors> (client.rs 135, 139).  The type is  *)
(* declared in error.rs; the document shape is                             *)
(*   {"errors":[{"code":"..","description":".."}, ...]}                    *)
(* in compact form.  The result is Option<sequence of errors>.             *)
(***************************************************************************)
ErrorsOpen == <<123, 34, 101, 114, 114, 111, 114, 115, 34, 58, 91>>   \* {"errors":[
ErrorsClose == <<93, 125>>                                            \* ]}
CodeOpen == <<123, 34, 99, 111, 100, 101, 34, 58, 34>>                \* {"code":"
DescOpen == <<34, 44, 34, 100, 101, 115, 99, 114, 105, 112, 116,
              105, 111, 110, 34, 58, 34>>                             \* ","description":"
ObjClose == <<34, 125>>                                               \* "}
Quote == 34
Comma == 44

\* parses the elements of the errors array; s starts after "[" or after ","
RECURSIVE ParseErrorList(_, _)
ParseErrorList(s, acc) ==
    IF ~StartsWith(s, CodeOpen) THEN <<>>
    ELSE LET s1 == Drop(s, Len(CodeOpen))
             q1 == IndexOf(s1, Quote, 1)
         IN  IF q1 = 0 THEN <<>>
             ELSE LET code == Take(s1, q1 - 1)
                      s2 == Drop(s1, q1 - 1)
                  IN  IF ~StartsWith(s2, DescOpen) THEN <<>>
                      ELSE LET s3 == Drop(s2, Len(DescOpen))
                               q2 == IndexOf(s3, Quote, 1)
                           IN  IF q2 = 0 THEN <<>>
                               ELSE LET desc == Take(s3, q2 - 1)
                                        s4 == Drop(s3, q2 - 1)
                                        err == [code |-> code, description |-> desc]
                                    IN  IF ~StartsWith(s4, ObjClose) THEN <<>>
                                        ELSE LET s5 == Drop(s4, Len(ObjClose)) IN
                                             IF s5 = ErrorsClose
                                             THEN <<Append(acc, err)>>
                                             ELSE IF s5 # <<>> /\ s5[1] = Comma
                                             THEN ParseErrorList(Drop(s5, 1), Append(acc, err))
                                             ELSE <<>>

ParseFaunaErrors(body) ==
    IF ~StartsWith(body, ErrorsOpen) THEN <<>>
    ELSE LET rest == Drop(body, Len(ErrorsOpen)) IN
         IF rest = ErrorsClose THEN << <<>> >>
         ELSE ParseErrorList(rest, <<>>)

(***************************************************************************)
(* serde_json::from_str::<Response> (client.rs 103).  Response is declared *)
(* in client/response.rs; the document shape is {"resource":<value>} with  *)
(* <value> a string or an unsigned number.  The result is Option<Response>.*)
(***************************************************************************)
ResourceOpen == <<123, 34, 114, 101, 115, 111, 117, 114, 99, 101, 34, 58>>  \* {"resource":
BraceClose == 125

IsDigit(b) == b >= 48 /\ b <= 57

RECURSIVE DigitsValue(_, _)
DigitsValue(s, acc) ==
    IF s = <<>> THEN acc ELSE DigitsValue(Drop(s, 1), acc * 10 + (s[1] - 48))

ParseResponse(body) ==
    IF ~StartsWith(body, ResourceOpen) \/ Len(body) < Len(ResourceOpen) + 2
       \/ body[Len(body)] # BraceClose
    THEN <<>>
    ELSE LET v == SubSeq(body, Len(ResourceOpen) + 1, Len(body) - 1) IN
         IF v[1] = Quote
         THEN IF Len(v) >= 2 /\ IndexOf(v, Quote, 2) = Len(v)
              THEN << [resource |-> [type |-> "string", text |-> SubSeq(v, 2, Len(v) - 1), number |-> 0]] >>
              ELSE <<>>
         ELSE IF (\A i \in 1..Len(v) : IsDigit(v[i])) /\ (Len(v) > 1 => v[1] # 48)
              THEN << [resource |-> [type |-> "number", text |-> <<>>, number |-> DigitsValue(v, 0)]] >>
              ELSE <<>>

(***************************************************************************)
(* base64::encode (client.rs 53): standard alphabet, '=' padding.          *)
(***************************************************************************)
B64Char(i) ==
    IF i < 26 THEN 65 + i
    ELSE IF i < 52 THEN 97 + (i - 26)
    ELSE IF i < 62 THEN 48 + (i - 52)
    ELSE IF i = 62 THEN 43
    ELSE 47

Pad == 61

RECURSIVE base64_encode(_)
base64_encode(bs) ==
    IF bs = <<>> THEN <<>>
    ELSE IF Len(bs) = 1
         THEN <<B64Char(bs[1] \div 4), B64Char((bs[1] % 4) * 16), Pad, Pad>>
    ELSE IF Len(bs) = 2
         THEN <<B64Char(bs[1] \div 4),
                B64Char((bs[1] % 4) * 16 + bs[2] \div 16),
                B64Char((bs[2] % 16) * 4), Pad>>
    ELSE <<B64Char(bs[1] \div 4),
           B64Char((bs[1] % 4) * 16 + bs[2] \div 16),
           B64Char((bs[2] % 16) * 4 + bs[3] \div 64),
           B64Char(bs[3] % 64)>> \o base64_encode(Drop(bs, 3))

(***************************************************************************)
(* str::parse::<Uri> (client.rs 57).  The result is Option<Uri>; a Uri is  *)
(* its scheme, authority and path.  An empty string, a character that is   *)
(* not allowed in a URI, an empty scheme or authority, and an authority    *)
(* followed by a path without a scheme are rejected.                       *)
(***************************************************************************)
Slash == 47
Colon == 58
SchemeSep == <<58, 47, 47>>     \* ://

UriCharOk(b) == b > 32 /\ b < 127

\* position of the first "://" in s at or after i, 0 when absent
RECURSIVE SchemeSepAt(_, _)
SchemeSepAt(s, i) ==
    IF i + 2 > Len(s) THEN 0
    ELSE IF SubSeq(s, i, i + 2) = SchemeSep THEN i
    ELSE SchemeSepAt(s, i + 1)

SplitAuthority(scheme, rest) ==
    LET k == IndexOf(rest, Slash, 1)
        authority == IF k = 0 THEN rest ELSE Take(rest, k - 1)
        path == IF k = 0 THEN <<>> ELSE Drop(rest, k - 1)
    IN  [scheme |-> scheme, authority |-> authority, path |-> path]

UriParse(s) ==
    IF s = <<>> \/ \E i \in 1..Len(s) : ~UriCharOk(s[i]) THEN <<>>
    ELSE IF s[1] = Slash
         THEN << [scheme |-> <<>>, authority |-> <<>>, path |-> s] >>
    ELSE LET k == SchemeSepAt(s, 1) IN
         IF k = 0
         THEN IF IndexOf(s, Slash, 1) # 0 THEN <<>>
              ELSE << [scheme |-> <<>>, authority |-> s, path |-> <<>>] >>
         ELSE IF k = 1 THEN <<>>
         ELSE LET u == SplitAuthority(<<Take(s, k - 1)>>, Drop(s, k + 2)) IN
              IF u.authority = <<>> THEN <<>> ELSE <<u>>

(***************************************************************************)
(* Client::builder and ClientBuilder (client.rs 28-90)                     *)
(***************************************************************************)
DefaultUri == <<104, 116, 116, 112, 115, 58, 47, 47, 100, 98, 46, 102,
                97, 117, 110, 97, 46, 99, 111, 109>>   \* https://db.fauna.com
DefaultTimeout == 60
BasicPrefix == <<66, 97, 115, 105, 99, 32>>            \* "Basic "

UriBytes == {97, 47, 32}            \* 'a', '/', ' '
SecretBytes == {115, 58}            \* 's', ':'
Uris == SeqsUpTo(UriBytes, MaxUriLen) \cup {DefaultUri}
Secrets == SeqsUpTo(SecretBytes, MaxSecretLen)
Timeouts == {1, DefaultTimeout}

Client_builder(secret) ==
    [uri |-> DefaultUri, secret |-> secret, timeout |-> DefaultTimeout]

NoBuild == [tag |-> "None", client |-> <<>>]
BuildErr == [tag |-> "Err", client |-> <<>>]

Step(name, ok) == [step |-> name, ok |-> ok]

\* a build that goes on to parse the uri after the connector failed
build_no_short_circuit(b, connectorOk) ==
    LET secret_b64 == base64_encode(b.secret \o <<Colon>>)
        uri == UriParse(b.uri)
        log == <<Step("base64", TRUE), Step("connector", connectorOk),
                 Step("uri", uri # <<>>)>>
    IN  IF ~connectorOk \/ uri = <<>>
        THEN [log |-> log, result |-> BuildErr]
        ELSE [log |-> log,
              result |-> [tag |-> "Ok",
                          client |-> << [uri |-> uri[1],
                                         timeout |-> b.timeout,
                                         authorization |-> BasicPrefix \o secret_b64] >>]]

\* ClientBuilder::build: the steps it runs, in order, each with whether it
\* succeeded, and what it returns.  connectorOk is whether
\* HttpsConnector::new(1) succeeds.
build(b, connectorOk) ==
    LET secret_b64 == base64_encode(b.secret \o <<Colon>>)
        uri == UriParse(b.uri)
    IN  IF ~connectorOk
        THEN [log |-> <<Step("base64", TRUE), Step("connector", FALSE)>>,
              result |-> BuildErr]
        ELSE IF uri = <<>>
        THEN [log |-> <<Step("base64", TRUE), Step("connector", TRUE),
                        Step("uri", FALSE)>>,
              result |-> BuildErr]
        ELSE [log |-> <<Step("base64", TRUE), Step("connector", TRUE),
                        Step("uri", TRUE)>>,
              result |-> [tag |-> "Ok",
                          client |-> << [uri |-> uri[1],
                                         timeout |-> b.timeout,
                                         authorization |-> BasicPrefix \o secret_b64] >>]]

(***************************************************************************)
(* Client::build_request (client.rs 164-176)                               *)
(***************************************************************************)
RECURSIVE ToDecimal(_)
ToDecimal(n) ==
    IF n < 10 THEN <<48 + n>> ELSE ToDecimal(n \div 10) \o <<48 + (n % 10)>>

build_request(c, payload) ==
    [uri |-> c.uri,
     method |-> "POST",
     headers |-> [content_length |-> ToDecimal(Len(payload)),
                  content_type |-> "application/json",
                  authorization |-> c.authorization,
                  api_version |-> "2.1"],
     body |-> payload]

(***************************************************************************)
(* Outcomes of a query: Ok(Response), one of the Error variants, or a      *)
(* panic that unwinds out of the future and yields no result.              *)
(***************************************************************************)
Res(tag, errors, text, value) ==
    [tag |-> tag, errors |-> errors, text |-> text, value |-> value]

Pending == Res("Pending", <<>>, <<>>, <<>>)
Panic == Res("Panic", <<>>, <<>>, <<>>)
Ok(v) == Res("Ok", <<>>, <<>>, <<v>>)
Err(tag) == Res(tag, <<>>, <<>>, <<>>)
ErrWithErrors(tag, errors) == Res(tag, errors, <<>>, <<>>)
ErrWithText(tag, text) == Res(tag, <<>>, text, <<>>)

ErrorTags == {"ConnectionError", "TimeoutError", "Unauthorized", "BadRequest",
              "NotFound", "DatabaseError", "EmptyResponse", "Other"}

is_success(s) == s >= 200 /\ s <= 299

UNAUTHORIZED == 401
BAD_REQUEST == 400
NOT_FOUND == 404

\* the closure Client::query passes to request (client.rs 102-104):
\* serde_json::from_str(&body).unwrap()
decode(body) ==
    LET r == ParseResponse(body) IN
    IF r = <<>> THEN Panic ELSE Ok(r[1])

\* serde_json::from_str::<FaunaErrors>(&body).unwrap(), then Error::<tag>(errors)
errors_or_panic(tag, body) ==
    LET e == ParseFaunaErrors(body) IN
    IF e = <<>> THEN Panic ELSE ErrWithErrors(tag, e[1])

\* a dispatch whose 400 and 404 arms are exchanged
Dispatch_swapped(st, body_chunk) ==
    LET utf8 == from_utf8(body_chunk) IN
    IF utf8 # <<>>
    THEN LET body == utf8[1] IN
         IF is_success(st)
         THEN [res |-> decode(body), decodes |-> 1, parses |-> 0]
         ELSE IF st = UNAUTHORIZED
         THEN [res |-> Err("Unauthorized"), decodes |-> 0, parses |-> 0]
         ELSE IF st = BAD_REQUEST
         THEN [res |-> errors_or_panic("NotFound", body), decodes |-> 0, parses |-> 1]
         ELSE IF st = NOT_FOUND
         THEN [res |-> errors_or_panic("BadRequest", body), decodes |-> 0, parses |-> 1]
         ELSE [res |-> ErrWithText("DatabaseError", body), decodes |-> 0, parses |-> 0]
    ELSE [res |-> Err("EmptyResponse"), decodes |-> 0, parses |-> 0]

\* a dispatch that reads every 4xx body but 401 as a FaunaErrors document
Dispatch_4xx_structured(st, body_chunk) ==
    LET utf8 == from_utf8(body_chunk) IN
    IF utf8 # <<>>
    THEN LET body == utf8[1] IN
         IF is_success(st)
         THEN [res |-> decode(body), decodes |-> 1, parses |-> 0]
         ELSE IF st = UNAUTHORIZED
         THEN [res |-> Err("Unauthorized"), decodes |-> 0, parses |-> 0]
         ELSE IF st = NOT_FOUND
         THEN [res |-> errors_or_panic("NotFound", body), decodes |-> 0, parses |-> 1]
         ELSE IF st >= 400 /\ st <= 499
         THEN [res |-> errors_or_panic("BadRequest", body), decodes |-> 0, parses |-> 1]
         ELSE [res |-> ErrWithText("DatabaseError", body), decodes |-> 0, parses |-> 0]
    ELSE [res |-> Err("EmptyResponse"), decodes |-> 0, parses |-> 0]

\* the closure given to get_body.and_then (client.rs 127-147): the outcome,
\* and how often the decode closure and the FaunaErrors parser were applied
Dispatch(st, body_chunk) ==
    LET utf8 == from_utf8(body_chunk) IN
    IF utf8 # <<>>
    THEN LET body == utf8[1] IN
         IF is_success(st)
         THEN [res |-> decode(body), decodes |-> 1, parses |-> 0]
         ELSE IF st = UNAUTHORIZED
         THEN [res |-> Err("Unauthorized"), decodes |-> 0, parses |-> 0]
         ELSE IF st = BAD_REQUEST
         THEN [res |-> errors_or_panic("BadRequest", body), decodes |-> 0, parses |-> 1]
         ELSE IF st = NOT_FOUND
         THEN [res |-> errors_or_panic("NotFound", body), decodes |-> 0, parses |-> 1]
         ELSE [res |-> ErrWithText("DatabaseError", body), decodes |-> 0, parses |-> 0]
    ELSE [res |-> Err("EmptyResponse"), decodes |-> 0, parses |-> 0]

NotReady == [res |-> Pending, decodes |-> 0, parses |-> 0]

\* polling `requesting` (client.rs 112-148): send_request, then get_body,
\* then the dispatch; both map_err calls give ConnectionError
requesting(in, st, body_chunk) ==
    IF in = "conn_failed" \/ in = "body_failed"
    THEN [res |-> Err("ConnectionError"), decodes |-> 0, parses |-> 0]
    ELSE IF in = "body_complete" THEN Dispatch(st, body_chunk)
    ELSE NotReady

\* polling Timeout::new(requesting, timeout) (client.rs 150): tokio-timer
\* polls the wrapped future first and the delay only when it is not ready.
\* The error is Inner(e), Elapsed (the deadline passed) or Timer (the timer
\* itself failed).
TimeoutPoll(polled, tm) ==
    IF polled.res.tag = "Panic" THEN [kind |-> "Panic", res |-> Panic]
    ELSE IF polled.res.tag = "Ok" THEN [kind |-> "Ok", res |-> polled.res]
    ELSE IF polled.res.tag # "Pending" THEN [kind |-> "Inner", res |-> polled.res]
    ELSE IF tm = "elapsed" THEN [kind |-> "Elapsed", res |-> Pending]
    ELSE IF tm = "failed" THEN [kind |-> "Timer", res |-> Pending]
    ELSE [kind |-> "NotReady", res |-> Pending]

\* the map_err closure of with_timeout (client.rs 150-159): is_timer() holds
\* of the Timer kind only, into_inner() is Some for the Inner kind only
with_timeout(t) ==
    IF t.kind \in {"Ok", "Panic", "NotReady"} THEN t.res
    ELSE IF t.kind = "Timer" THEN Err("TimeoutError")
    ELSE IF t.kind = "Inner" THEN t.res
    ELSE Err("Other")

\* a submission that is made twice
SubmitTwice(log, request) == Append(Append(log, request), request)

\* transport.request(request) (client.rs 112-114): one submission
Submit(log, request) == Append(log, request)

(***************************************************************************)
(* Inputs of the query specification                                       *)
(***************************************************************************)
Payloads == { <<110, 117, 108, 108>>,   \* null
              <<49>> }                  \* 1

Statuses == {100, 200, 204, 301, 400, 401, 403, 404, 500}

DocNoErrors == <<123, 34, 101, 114, 114, 111, 114, 115, 34, 58, 91, 93, 125>>
DocOneError == <<123, 34, 101, 114, 114, 111, 114, 115, 34, 58, 91, 123, 34,
                 99, 111, 100, 101, 34, 58, 34, 97, 34, 44, 34, 100, 101, 115,
                 99, 114, 105, 112, 116, 105, 111, 110, 34, 58, 34, 98, 34,
                 125, 93, 125>>
DocTwoErrors == <<123, 34, 101, 114, 114, 111, 114, 115, 34, 58, 91, 123, 34,
                  99, 111, 100, 101, 34, 58, 34, 97, 34, 44, 34, 100, 101, 115,
                  99, 114, 105, 112, 116, 105, 111, 110, 34, 58, 34, 98, 34,
                  125, 44, 123, 34, 99, 111, 100, 101, 34, 58, 34, 99, 34, 44,
                  34, 100, 101, 115, 99, 114, 105, 112, 116, 105, 111, 110, 34,
                  58, 34, 100, 34, 125, 93, 125>>
DocResourceString == <<123, 34, 114, 101, 115, 111, 117, 114, 99, 101, 34, 58,
                       34, 120, 34, 125>>
DocResourceNumber == <<123, 34, 114, 101, 115, 111, 117, 114, 99, 101, 34, 58,
                       55, 125>>
DocText == <<111, 111, 112, 115>>

\* response bodies: empty; {"errors":[]}; one error; two errors;
\* {"resource":"x"}; {"resource":7}; oops; a two-byte character; a byte that
\* never occurs in UTF-8; a truncated character; an errors document followed
\* by a stray continuation byte
Bodies == { <<>>, DocNoErrors, DocOneError, DocTwoErrors, DocResourceString,
            DocResourceNumber, DocText, <<195, 169>>, <<255>>, <<195>>,
            DocNoErrors \o <<128>> }

(***************************************************************************)
(* Initial values of the variables a specification does not use            *)
(***************************************************************************)
IdleBuild == builder = <<>> /\ buildLog = <<>> /\ buildResult = NoBuild

IdleQuery ==
    /\ client = <<>> /\ calls = 0 /\ sent = <<>> /\ inner = "none"
    /\ status = 0 /\ remaining = <<>> /\ buf = <<>> /\ timer = "idle"
    /\ result = Pending /\ decodeCalls = 0 /\ parseCalls = 0
    /\ inTime = FALSE /\ lateTimer = FALSE

IdleTerm == term = <<>> /\ ivalue = <<>> /\ reversed = FALSE

IdleParams == params = <<>> /\ given = <<>> /\ called = {} /\ lastArg = <<>>

(***************************************************************************)
(* SpecBuild: building a client                                            *)
(***************************************************************************)
InitBuild ==
    /\ builder = <<>> /\ buildLog = <<>> /\ buildResult = NoBuild
    /\ IdleQuery /\ IdleTerm /\ IdleParams

\* Client::builder(secret)
Builder(secret) ==
    /\ builder' = <<Client_builder(secret)>>
    /\ buildLog' = <<>>
    /\ buildResult' = NoBuild
    /\ UNCHANGED <<queryVars, termVars, paramsVars>>

\* ClientBuilder::uri
SetUri(uri) ==
    /\ builder # <<>>
    /\ builder' = <<[builder[1] EXCEPT !.uri = uri]>>
    /\ UNCHANGED <<buildLog, buildResult, queryVars, termVars, paramsVars>>

\* ClientBuilder::timeout
SetTimeout(t) ==
    /\ builder # <<>>
    /\ builder' = <<[builder[1] EXCEPT !.timeout = t]>>
    /\ UNCHANGED <<buildLog, buildResult, queryVars, termVars, paramsVars>>

\* ClientBuilder::build(self): consumes the builder
Build(connectorOk) ==
    /\ builder # <<>>
    /\ LET b == build(builder[1], connectorOk) IN
         /\ buildLog' = b.log
         /\ buildResult' = b.result
    /\ builder' = <<>>
    /\ UNCHANGED <<queryVars, termVars, paramsVars>>

NextBuild ==
    \/ \E secret \in Secrets : Builder(secret)
    \/ \E uri \in Uris : SetUri(uri)
    \/ \E t \in Timeouts : SetTimeout(t)
    \/ \E connectorOk \in BOOLEAN : Build(connectorOk)

SpecBuild == InitBuild /\ [][NextBuild]_vars

(***************************************************************************)
(* Spec: queries on a built client                                         *)
(***************************************************************************)
Init ==
    /\ \E secret \in Secrets :
         client = build(Client_builder(secret), TRUE).result.client
    /\ calls = 0 /\ sent = <<>> /\ inner = "none"
    /\ status = 0 /\ remaining = <<>> /\ buf = <<>> /\ timer = "idle"
    /\ result = Pending /\ decodeCalls = 0 /\ parseCalls = 0
    /\ inTime = FALSE /\ lateTimer = FALSE
    /\ IdleBuild /\ IdleTerm /\ IdleParams

\* Client::query, up to the construction of the future (client.rs 93-116,
\* 150-161); payload is serde_json::to_string(&query)
Query(payload) ==
    /\ calls < MaxQueries
    /\ calls > 0 => result # Pending
    /\ calls' = calls + 1
    /\ sent' = Submit(sent, build_request(client[1], payload))
    /\ inner' = "awaiting_response"
    /\ status' = 0 /\ remaining' = <<>> /\ buf' = <<>>
    /\ timer' = "running"
    /\ result' = Pending
    /\ decodeCalls' = 0 /\ parseCalls' = 0
    /\ inTime' = FALSE /\ lateTimer' = FALSE
    /\ UNCHANGED <<client, buildVars, termVars, paramsVars>>

\* the transport fails before a response head arrives
ConnFail ==
    /\ inner = "awaiting_response"
    /\ inner' = "conn_failed"
    /\ UNCHANGED <<client, calls, sent, status, remaining, buf, timer, result,
                   decodeCalls, parseCalls, inTime, lateTimer,
                   buildVars, termVars, paramsVars>>

\* the response head arrives; body is what the server will stream
ResponseHead(st, body) ==
    /\ inner = "awaiting_response"
    /\ inner' = "reading_body"
    /\ status' = st
    /\ remaining' = body
    /\ UNCHANGED <<client, calls, sent, buf, timer, result, decodeCalls,
                   parseCalls, inTime, lateTimer, buildVars, termVars, paramsVars>>

\* concat2 receives the next chunk of the body
BodyChunk ==
    /\ inner = "reading_body"
    /\ remaining # <<>>
    /\ buf' = buf \o Take(remaining, ChunkSize)
    /\ remaining' = Drop(remaining, ChunkSize)
    /\ UNCHANGED <<client, calls, sent, inner, status, timer, result,
                   decodeCalls, parseCalls, inTime, lateTimer,
                   buildVars, termVars, paramsVars>>

\* the body stream ends: concat2 yields the whole body
BodyEnd ==
    /\ inner = "reading_body"
    /\ remaining = <<>>
    /\ inner' = "body_complete"
    /\ inTime' = (timer = "running" /\ result = Pending)
    /\ UNCHANGED <<client, calls, sent, status, remaining, buf, timer, result,
                   decodeCalls, parseCalls, lateTimer,
                   buildVars, termVars, paramsVars>>

\* the body stream fails
BodyFail ==
    /\ inner = "reading_body"
    /\ inner' = "body_failed"
    /\ UNCHANGED <<client, calls, sent, status, remaining, buf, timer, result,
                   decodeCalls, parseCalls, inTime, lateTimer,
                   buildVars, termVars, paramsVars>>

\* the deadline passes
TimerElapse ==
    /\ timer = "running" /\ result = Pending
    /\ timer' = "elapsed"
    /\ lateTimer' = (inner \in {"awaiting_response", "reading_body"})
    /\ UNCHANGED <<client, calls, sent, inner, status, remaining, buf, result,
                   decodeCalls, parseCalls, inTime,
                   buildVars, termVars, paramsVars>>

\* the timer itself fails (shut down, or at capacity)
TimerFail ==
    /\ timer = "running" /\ result = Pending
    /\ timer' = "failed"
    /\ UNCHANGED <<client, calls, sent, inner, status, remaining, buf, result,
                   decodeCalls, parseCalls, inTime, lateTimer,
                   buildVars, termVars, paramsVars>>

\* the executor polls the future returned by query, and it completes
Poll ==
    /\ calls > 0 /\ result = Pending
    /\ LET polled == requesting(inner, status, buf)
           out == with_timeout(TimeoutPoll(polled, timer))
       IN  /\ out # Pending
           /\ result' = out
           /\ decodeCalls' = decodeCalls + polled.decodes
           /\ parseCalls' = parseCalls + polled.parses
    /\ UNCHANGED <<client, calls, sent, inner, status, remaining, buf, timer,
                   inTime, lateTimer, buildVars, termVars, paramsVars>>

Next ==
    \/ \E payload \in Payloads : Query(payload)
    \/ ConnFail
    \/ \E st \in Statuses, body \in Bodies : ResponseHead(st, body)
    \/ BodyChunk
    \/ BodyEnd
    \/ BodyFail
    \/ TimerElapse
    \/ TimerFail
    \/ Poll

Spec == Init /\ [][Next]_vars

(***************************************************************************)
(* Properties of ClientBuilder::build (SpecBuild)                          *)
(***************************************************************************)
StepNames(log) == [i \in 1..Len(log) |-> log[i].step]

IsPrefix(p, s) == Len(p) <= Len(s) /\ SubSeq(s, 1, Len(p)) = p

\* no step runs after a failed one
StopsAtFailure(log) == \A i \in 1..Len(log) : ~log[i].ok => i = Len(log)

BuildOutcome ==
    /\ buildResult.tag = "Err" <=> (\E i \in 1..Len(buildLog) : ~buildLog[i].ok)
    /\ buildResult.tag = "Err" => buildResult.client = <<>>
    /\ buildResult.tag = "Ok" => Len(buildLog) = 3 /\ buildResult.client # <<>>
    /\ sent = <<>>

\* C9 as stated: build runs (1) the connector, (2) the uri parse, (3) the
\* base64 encoding, in that order, stops at the first failing step, returns
\* an error and no Client when a step failed, and submits nothing.
C9_StepOrder ==
    buildResult.tag # "None" =>
        /\ IsPrefix(StepNames(buildLog), <<"connector", "uri", "base64">>)
        /\ StopsAtFailure(buildLog)
        /\ BuildOutcome

\* C9 amended: build first base64-encodes "<secret>:", which cannot fail,
\* then constructs the connector, then parses the uri; the uri parse is not
\* attempted after the connector failed; a failure of the connector or of
\* the uri parse returns an error and no Client; nothing is submitted.
C9_EncodesFirst ==
    buildResult.tag # "None" =>
        /\ Len(buildLog) >= 2
        /\ IsPrefix(StepNames(buildLog), <<"base64", "connector", "uri">>)
        /\ buildLog[1].ok
        /\ StopsAtFailure(buildLog)
        /\ BuildOutcome

\* a build whose connector failed: the encoding ran, the uri parse did not
C9_Witness ==
    /\ buildResult.tag = "Err"
    /\ StepNames(buildLog) = <<"base64", "connector">>
    /\ ~buildLog[2].ok

(***************************************************************************)
(* Properties of Client::query (Spec)                                      *)
(***************************************************************************)
Resolved == calls > 0 /\ result # Pending

\* C1: a 401 response whose body was received before the timeout resolves
\* to Unauthorized, whatever the body bytes are.
C1_Unauthorized ==
    (Resolved /\ inTime /\ status = UNAUTHORIZED) => result = Err("Unauthorized")

\* C2: when the timeout elapses before the pipeline is ready the query
\* resolves to TimeoutError, and TimeoutError is produced in that case only.
C2_Timeout ==
    Resolved => (lateTimer <=> result = Err("TimeoutError"))

\* C3: a 400 (404) response with a well-formed errors body received before
\* the timeout resolves to BadRequest (NotFound) with the errors of the body
\* in order, and the success decode closure is not run.
C3_StructuredErrors ==
    (Resolved /\ inTime /\ status \in {BAD_REQUEST, NOT_FOUND}
        /\ ParseFaunaErrors(buf) # <<>>) =>
        /\ result.tag = (IF status = BAD_REQUEST THEN "BadRequest" ELSE "NotFound")
        /\ result = ErrWithErrors(result.tag, ParseFaunaErrors(buf)[1])
        /\ buf = DocNoErrors => result.errors = <<>>
        /\ buf = DocTwoErrors =>
             result.errors = << [code |-> <<97>>, description |-> <<98>>],
                                [code |-> <<99>>, description |-> <<100>>] >>
        /\ decodeCalls = 0

\* a 400 response carrying two errors resolved to BadRequest
C3_Witness ==
    /\ Resolved /\ inTime /\ status = BAD_REQUEST /\ buf = DocTwoErrors
    /\ result.tag = "BadRequest" /\ Len(result.errors) = 2

\* C4: a 2xx response with a valid UTF-8 body received before the timeout
\* resolves to the success value the decode closure gives for the body; the
\* closure runs exactly once and no error variant is produced.
C4_SuccessDecode ==
    (Resolved /\ inTime /\ is_success(status) /\ Utf8Valid(buf)) =>
        /\ result.tag = "Ok"
        /\ result.value = ParseResponse(buf)
        /\ decodeCalls = 1

\* C5: every query ends in a success value or in one member of the closed
\* error set, never in a panic that yields no result.
C5_TypedResult ==
    result.tag \in {"Pending", "Ok"} \cup ErrorTags

\* C6: the number of requests submitted to the transport equals the number
\* of query calls made, whatever the earlier queries ended in.
C6_OneSubmission ==
    Len(sent) = calls

\* a second query was made after the first ended, and its connection failed
C6_Witness ==
    /\ calls = 2 /\ Len(sent) = 2 /\ inner = "conn_failed"
    /\ result = Err("ConnectionError")

\* C10: a response with a valid UTF-8 body and a status that is neither 2xx
\* nor 400, 401 or 404, received before the timeout, resolves to
\* DatabaseError with the body text unchanged; neither the decode closure
\* nor the FaunaErrors parser is run.
C10_DatabaseError ==
    (Resolved /\ inTime /\ Utf8Valid(buf) /\ ~is_success(status)
        /\ status \notin {BAD_REQUEST, UNAUTHORIZED, NOT_FOUND}) =>
        /\ result = ErrWithText("DatabaseError", buf)
        /\ decodeCalls = 0
        /\ parseCalls = 0

\* a 403 response carrying an errors document resolved to DatabaseError
C10_Witness ==
    /\ Resolved /\ inTime /\ status = 403 /\ buf = DocOneError
    /\ result.tag = "DatabaseError" /\ result.text = DocOneError

(***************************************************************************)
(* Term and IndexValue (create_index.rs 35-85, 112-176)                    *)
(***************************************************************************)
Segments == {"data", "age"}
Names == {"cats_name", "cats_age"}
Paths == SeqsUpTo(Segments, MaxPath)

\* TermObject::Field(IndexField(path)) and TermObject::Binding(IndexBinding(name))
TermObject_Field(path) == [variant |-> "Field", field |-> <<path>>, binding |-> <<>>]

TermObject_Binding(name) == [variant |-> "Binding", field |-> <<>>, binding |-> <<name>>]

Term_field(path) == [object |-> TermObject_Field(path)]

Term_binding(name) == [object |-> TermObject_Binding(name)]

IndexValue_field(path) ==
    [object |-> [field |-> <<path>>, binding |-> <<>>, reverse |-> FALSE]]

IndexValue_binding(name) ==
    [object |-> [field |-> <<>>, binding |-> <<name>>, reverse |-> FALSE]]

\* a reverse that flips the flag
IndexValue_reverse_toggle(v) == [v EXCEPT !.object.reverse = ~v.object.reverse]

IndexValue_reverse(v) == [v EXCEPT !.object.reverse = TRUE]

\* Serialize for TermObject: an externally tagged enum with renamed variants
SerializeTermObject(o) ==
    IF o.variant = "Field"
    THEN [k \in {"field"} |-> o.field[1]]
    ELSE [k \in {"binding"} |-> o.binding[1]]

SerializeTerm(t) == [k \in {"object"} |-> SerializeTermObject(t.object)]

\* Serialize for ValueObject: a None field or binding is skipped
SerializeValueObject(o) ==
    [k \in {"reverse"} \cup (IF o.field # <<>> THEN {"field"} ELSE {})
                       \cup (IF o.binding # <<>> THEN {"binding"} ELSE {}) |->
        IF k = "reverse" THEN o.reverse
        ELSE IF k = "field" THEN o.field[1]
        ELSE o.binding[1]]

SerializeIndexValue(v) == [k \in {"object"} |-> SerializeValueObject(v.object)]

InitTerm ==
    /\ term = <<>> /\ ivalue = <<>> /\ reversed = FALSE
    /\ IdleBuild /\ IdleQuery /\ IdleParams

NewTermField(path) ==
    /\ term' = <<Term_field(path)>>
    /\ UNCHANGED <<ivalue, reversed, buildVars, queryVars, paramsVars>>

NewTermBinding(name) ==
    /\ term' = <<Term_binding(name)>>
    /\ UNCHANGED <<ivalue, reversed, buildVars, queryVars, paramsVars>>

NewValueField(path) ==
    /\ ivalue' = <<IndexValue_field(path)>>
    /\ reversed' = FALSE
    /\ UNCHANGED <<term, buildVars, queryVars, paramsVars>>

NewValueBinding(name) ==
    /\ ivalue' = <<IndexValue_binding(name)>>
    /\ reversed' = FALSE
    /\ UNCHANGED <<term, buildVars, queryVars, paramsVars>>

Reverse ==
    /\ ivalue # <<>>
    /\ ivalue' = <<IndexValue_reverse(ivalue[1])>>
    /\ reversed' = TRUE
    /\ UNCHANGED <<term, buildVars, queryVars, paramsVars>>

NextTerm ==
    \/ \E path \in Paths : NewTermField(path)
    \/ \E name \in Names : NewTermBinding(name)
    \/ \E path \in Paths : NewValueField(path)
    \/ \E name \in Names : NewValueBinding(name)
    \/ Reverse

SpecTerm == InitTerm /\ [][NextTerm]_vars

FieldOrBinding(obj) == Cardinality(DOMAIN obj \cap {"field", "binding"}) = 1

\* C7: the serialized Term and the serialized IndexValue each hold exactly
\* one of the keys field and binding, and the serialized reverse of an
\* IndexValue is true exactly when reverse was called on it.
C7_FieldXorBinding ==
    /\ term # <<>> => FieldOrBinding(SerializeTerm(term[1])["object"])
    /\ ivalue # <<>> =>
         LET o == SerializeIndexValue(ivalue[1])["object"] IN
         /\ FieldOrBinding(o)
         /\ DOMAIN o \subseteq {"field", "binding", "reverse"}
         /\ o["reverse"] = reversed

\* a binding value on which reverse was called, along with a field term
C7_Witness ==
    /\ term # <<>> /\ DOMAIN SerializeTerm(term[1])["object"] = {"field"}
    /\ ivalue # <<>> /\ reversed
    /\ DOMAIN SerializeIndexValue(ivalue[1])["object"] = {"binding", "reverse"}
    /\ SerializeIndexValue(ivalue[1])["object"]["reverse"] = TRUE

(***************************************************************************)
(* IndexParams and CreateIndex (create_index.rs 22-33, 87-110, 178-253)    *)
(***************************************************************************)
\* Ref::class(id) as an Expr: declared in expr.rs, written here as its JSON
Ref_class(id) ==
    [k \in {"@ref"} |->
        [j \in {"class", "id"} |->
            IF j = "id" THEN <<id>>
            ELSE <<[m \in {"@ref"} |-> [n \in {"id"} |-> "classes"]]>>]]

\* IndexPermission (expr.rs): an optional read level; serialized as an object
SerializePermission(perm) ==
    [k \in {"object"} |->
        [j \in (IF perm.read # <<>> THEN {"read"} ELSE {}) |-> perm.read[1]]]

\* Expr::from(Object) (create_index.rs 250): an Object as an expression,
\* which serializes wrapped in "object"
Expr_from_Object(data) == [k \in {"object"} |-> data]

IndexNames == {"meows", "events"}
Sources == {Ref_class("cats"), Ref_class("dogs")}
\* the vectors tried: empty, one element, and both orders of the pool
TermLists ==
    { <<>>, <<Term_binding("cats_name")>>,
      <<Term_field(<<"data", "age">>), Term_binding("cats_name")>>,
      <<Term_binding("cats_name"), Term_field(<<"data", "age">>)>> }
ValueLists ==
    { <<>>, <<IndexValue_field(<<"data", "name">>)>>,
      <<IndexValue_reverse(IndexValue_binding("cats_age")), IndexValue_field(<<"data", "name">>)>>,
      <<IndexValue_field(<<"data", "name">>), IndexValue_reverse(IndexValue_binding("cats_age"))>> }
PartitionCounts == {1, 8}
PermissionSets == {[read |-> <<>>], [read |-> <<"public">>]}
Objects == {[k \in {} |-> "v"], [k \in {"owner"} |-> "v"]}

IndexParams_new(name, source) ==
    [object |-> [name |-> name, source |-> source,
                 active |-> FALSE, unique |-> FALSE, serialized |-> FALSE,
                 terms |-> <<>>, values |-> <<>>, partitions |-> <<>>,
                 permissions |-> <<>>, data |-> <<>>]]

IndexParams_active(p) == [p EXCEPT !.object.active = TRUE]

IndexParams_unique(p) == [p EXCEPT !.object.unique = TRUE]

IndexParams_serialized(p) == [p EXCEPT !.object.serialized = TRUE]

IndexParams_terms(p, terms) == [p EXCEPT !.object.terms = <<terms>>]

\* a values setter that extends the vector already set
IndexParams_values_extend(p, values) ==
    [p EXCEPT !.object.values =
        IF p.object.values = <<>> THEN <<values>>
        ELSE <<p.object.values[1] \o values>>]

IndexParams_values(p, values) == [p EXCEPT !.object.values = <<values>>]

IndexParams_partitions(p, partitions) == [p EXCEPT !.object.partitions = <<partitions>>]

IndexParams_permissions(p, permissions) == [p EXCEPT !.object.permissions = <<permissions>>]

IndexParams_data(p, data) == [p EXCEPT !.object.data = <<Expr_from_Object(data)>>]

CreateIndex_new(p) == [create_index |-> p]

\* Serialize for IndexParamsInternal: a None option is skipped
OptionalKeys == {"terms", "values", "partitions", "permissions", "data"}
FlagKeys == {"active", "unique", "serialized"}

SerializeIndexParamsInternal(o) ==
    [k \in {"name", "source"} \cup FlagKeys
            \cup {j \in OptionalKeys : o[j] # <<>>} |->
        CASE k = "terms" -> [i \in 1..Len(o.terms[1]) |-> SerializeTerm(o.terms[1][i])]
          [] k = "values" -> [i \in 1..Len(o.values[1]) |-> SerializeIndexValue(o.values[1][i])]
          [] k = "partitions" -> o.partitions[1]
          [] k = "permissions" -> SerializePermission(o.permissions[1])
          [] k = "data" -> o.data[1]
          [] OTHER -> o[k]]

SerializeIndexParams(p) == [k \in {"object"} |-> SerializeIndexParamsInternal(p.object)]

SerializeCreateIndex(c) == [k \in {"create_index"} |-> SerializeIndexParams(c.create_index)]

NoArgs == [terms |-> <<>>, values |-> <<>>, partitions |-> <<>>,
           permissions |-> <<>>, data |-> <<>>]

InitParams ==
    /\ params = <<>> /\ given = <<>> /\ called = {} /\ lastArg = <<>>
    /\ IdleBuild /\ IdleQuery /\ IdleTerm

New(name, source) ==
    /\ params' = <<IndexParams_new(name, source)>>
    /\ given' = <<[name |-> name, source |-> source]>>
    /\ called' = {}
    /\ lastArg' = NoArgs
    /\ UNCHANGED <<buildVars, queryVars, termVars>>

Active ==
    /\ params # <<>>
    /\ params' = <<IndexParams_active(params[1])>>
    /\ called' = called \cup {"active"}
    /\ UNCHANGED <<given, lastArg, buildVars, queryVars, termVars>>

Unique ==
    /\ params # <<>>
    /\ params' = <<IndexParams_unique(params[1])>>
    /\ called' = called \cup {"unique"}
    /\ UNCHANGED <<given, lastArg, buildVars, queryVars, termVars>>

Serialized ==
    /\ params # <<>>
    /\ params' = <<IndexParams_serialized(params[1])>>
    /\ called' = called \cup {"serialized"}
    /\ UNCHANGED <<given, lastArg, buildVars, queryVars, termVars>>

Terms(terms) ==
    /\ params # <<>>
    /\ params' = <<IndexParams_terms(params[1], terms)>>
    /\ called' = called \cup {"terms"}
    /\ lastArg' = [lastArg EXCEPT !.terms = <<terms>>]
    /\ UNCHANGED <<given, buildVars, queryVars, termVars>>

Values(values) ==
    /\ params # <<>>
    /\ params' = <<IndexParams_values(params[1], values)>>
    /\ called' = called \cup {"values"}
    /\ lastArg' = [lastArg EXCEPT !.values = <<values>>]
    /\ UNCHANGED <<given, buildVars, queryVars, termVars>>

Partitions(partitions) ==
    /\ params # <<>>
    /\ params' = <<IndexParams_partitions(params[1], partitions)>>
    /\ called' = called \cup {"partitions"}
    /\ lastArg' = [lastArg EXCEPT !.partitions = <<partitions>>]
    /\ UNCHANGED <<given, buildVars, queryVars, termVars>>

Permissions(permissions) ==
    /\ params # <<>>
    /\ params' = <<IndexParams_permissions(params[1], permissions)>>
    /\ called' = called \cup {"permissions"}
    /\ lastArg' = [lastArg EXCEPT !.permissions = <<permissions>>]
    /\ UNCHANGED <<given, buildVars, queryVars, termVars>>

Data(data) ==
    /\ params # <<>>
    /\ params' = <<IndexParams_data(params[1], data)>>
    /\ called' = called \cup {"data"}
    /\ lastArg' = [lastArg EXCEPT !.data = <<data>>]
    /\ UNCHANGED <<given, buildVars, queryVars, termVars>>

NextParams ==
    \/ \E name \in IndexNames, source \in Sources : New(name, source)
    \/ Active
    \/ Unique
    \/ Serialized
    \/ \E terms \in TermLists : Terms(terms)
    \/ \E values \in ValueLists : Values(values)
    \/ \E partitions \in PartitionCounts : Partitions(partitions)
    \/ \E permissions \in PermissionSets : Permissions(permissions)
    \/ \E data \in Objects : Data(data)

SpecParams == InitParams /\ [][NextParams]_vars

\* the object under create_index.object in the serialized query
Wire(p) == SerializeCreateIndex(CreateIndex_new(p))["create_index"]["object"]

Get(o, k) == IF k \in DOMAIN o THEN <<o[k]>> ELSE <<>>

\* what the serialized object holds under an optional key for an argument
WireArg(k, arg) ==
    CASE k = "terms" -> [i \in 1..Len(arg) |-> SerializeTerm(arg[i])]
      [] k = "values" -> [i \in 1..Len(arg) |-> SerializeIndexValue(arg[i])]
      [] k = "partitions" -> arg
      [] k = "permissions" -> SerializePermission(arg)
      [] k = "data" -> [j \in {"object"} |-> arg]

C8_Serialized ==
    params # <<>> =>
        LET o == Wire(params[1]) IN
        /\ o["name"] = given[1].name
        /\ o["source"] = given[1].source
        /\ \A k \in FlagKeys : o[k] = (k \in called)
        /\ \A k \in OptionalKeys :
             /\ k \in DOMAIN o <=> k \in called
             /\ k \in called => /\ lastArg[k] # <<>>
                                /\ o[k] = WireArg(k, lastArg[k][1])
        /\ DOMAIN o \subseteq {"name", "source"} \cup FlagKeys \cup OptionalKeys

\* the setter a step called: its key is in called', and the step added it or
\* changed its argument
Acted(k) ==
    /\ k \in called'
    /\ \/ k \notin called
       \/ k \in OptionalKeys /\ lastArg'[k] # lastArg[k]

C8_Frame ==
    (params # <<>> /\ called' # {}) =>
        \A k \in {"name", "source"} \cup FlagKeys \cup OptionalKeys :
            Get(Wire(params'[1]), k) # Get(Wire(params[1]), k) =>
                /\ Acted(k)
                /\ \A j \in (FlagKeys \cup OptionalKeys) \ {k} : ~Acted(j)

\* C8: the serialized create_index object has the name and source given to
\* new, each flag true exactly when its setter was called, each optional key
\* present exactly when its setter was called and holding the argument of
\* the most recent call in order; a setter changes no key but its own.
C8_Setters == []C8_Serialized /\ [][C8_Frame]_vars

\* terms, values and permissions were set and the flags were not, values to
\* the two-element vector of the repository's test
C8_Witness ==
    /\ params # <<>>
    /\ called = {"terms", "values", "permissions"}
    /\ lastArg.values = << <<IndexValue_reverse(IndexValue_binding("cats_age")),
                             IndexValue_field(<<"data", "name">>)>> >>
    /\ Wire(params[1])["values"] =
         << [k \in {"object"} |-> [j \in {"binding", "reverse"} |->
                IF j = "binding" THEN "cats_age" ELSE TRUE]],
            [k \in {"object"} |-> [j \in {"field", "reverse"} |->
                IF j = "field" THEN <<"data", "name">> ELSE FALSE]] >>
    /\ Wire(params[1])["active"] = FALSE

====
